---- MODULE Spec2Model ----
(***************************************************************************)
(* A model of the caption rewriting assistant: the App component's state   *)
(* (row list, stats, processing flag, stop flag, history), the             *)
(* startProcessing worker pool, and the local-storage history service.     *)
(*                                                                         *)
(* One action is one task of the browser's event loop: a user event        *)
(* handler, or the resumption of a worker after its awaited rewriteCaption *)
(* call settled, run up to the point where every continuation is awaiting  *)
(* the network again (promise continuations that need no network run in    *)
(* the same task, as microtasks).                                          *)
(***************************************************************************)
EXTENDS Integers, Sequences, FiniteSets, TLC

(* ------------------------------ bounds -------------------------------- *)
MaxRows == 4
MaxRuns == 2
MaxCreated == 5
MaxHistory == 1
MaxSessionRows == 2
MaxSaves == 22
MaxDeletes == 2
MaxSheetRows == 2
MaxFileRuns == 1
MaxMatching == 1
MaxMatchRows == 2

(* ------------------------- program constants -------------------------- *)
CONCURRENCY == 3
SessionCap == 20

(* ------------------------- JavaScript values -------------------------- *)
Undefined == "<undefined>"
Null == "<null>"

\* `x || undefined` on a string: the empty string and undefined are falsy.
Truthy(x) == x # Undefined /\ x # Null /\ x # ""

OrElse(x, y) == IF Truthy(x) THEN x ELSE y

(* ------------------------------ rows ---------------------------------- *)
\* A slot of a JavaScript array of CaptionRow: an object ("row"), a hole of
\* a sparse array ("hole"), the value undefined ("undefined") or, after a
\* JSON round trip, null ("null").  An absent property and a property whose
\* value is undefined are the same here (id 0 is an absent id).
CaptionRow(id, original, rewritten, status, imagePath, imageData, error) ==
    [kind |-> "row", id |-> id, original |-> original, rewritten |-> rewritten,
     status |-> status, imagePath |-> imagePath, imageData |-> imageData,
     error |-> error]

\* {} : what spreading undefined or null into an object literal gives
EmptyObject ==
    CaptionRow(0, Undefined, Undefined, Undefined, Undefined, Undefined, Undefined)

Hole == [EmptyObject EXCEPT !.kind = "hole"]
UndefinedSlot == [EmptyObject EXCEPT !.kind = "undefined"]
NullSlot == [EmptyObject EXCEPT !.kind = "null"]

IsRow(s) == s.kind = "row"

\* [...prev] : the array iterator reads a hole as undefined
Spread(prev) ==
    [i \in 1..Len(prev) |-> IF prev[i].kind = "hole" THEN UndefinedSlot ELSE prev[i]]

\* { ...newData[i] } : the properties of the object at i, none when the
\* slot is out of range, a hole, undefined or null
SpreadAt(newData, i) ==
    IF i <= Len(newData) /\ IsRow(newData[i]) THEN newData[i] ELSE EmptyObject

\* newData[i] = v : writing past the end leaves holes in between
AssignAt(newData, i, v) ==
    IF i <= Len(newData)
    THEN [newData EXCEPT ![i] = v]
    ELSE newData \o [k \in 1..(i - Len(newData) - 1) |-> Hole] \o <<v>>

\* rendering DataPreview reads row.id of every element map() visits: map
\* skips holes, and throws on undefined or null
RenderThrows(d) == \E i \in 1..Len(d) : d[i].kind \in {"undefined", "null"}

(* --------------------------- rewriteCaption --------------------------- *)
\* The model names the settings offer, and whether a name includes a
\* provider pattern (String.prototype.includes).
ModelNames == {"gemini-3-pro-preview", "deepseek-chat", "moonshot-v1-8k"}

\* a name that includes none of the provider patterns
AnyModelNames == ModelNames \cup {"other-model"}

Includes(modelName, pattern) ==
    <<modelName, pattern>> \in {<<"gemini-3-pro-preview", "gemini">>,
                                <<"deepseek-chat", "deepseek">>,
                                <<"moonshot-v1-8k", "moonshot">>}

NoThrow == "<no throw>"

TextOnlyMessage == "text-only model: switch back to Gemini for images"

\* (a text-only provider that is sent whatever has a text)
OpenAIThrowsTextFirst(modelName, input) ==
    IF ~Truthy(input.text) THEN "No text input provided for text-only model."
    ELSE IF Includes(modelName, "deepseek") \/ Includes(modelName, "moonshot") THEN NoThrow
    ELSE "Unknown model provider"

\* callOpenAICompatibleApi up to its fetch: the message of the error it
\* throws before any request is sent, or NoThrow
OpenAIThrows(modelName, input) ==
    IF Truthy(input.imageData) THEN TextOnlyMessage
    ELSE IF ~Truthy(input.text) THEN "No text input provided for text-only model."
    ELSE IF Includes(modelName, "deepseek") \/ Includes(modelName, "moonshot") THEN NoThrow
    ELSE "Unknown model provider"

\* rewriteCaption up to its first network request: the message of the error
\* it throws before any request is sent, or NoThrow
RewriteCaptionThrows(apiKey, modelName, input) ==
    IF ~Truthy(apiKey) THEN "API Key is missing"
    ELSE IF ~Includes(modelName, "gemini") THEN OpenAIThrows(modelName, input)
    ELSE IF Truthy(input.imageData) \/ Truthy(input.text) THEN NoThrow
    ELSE "No input provided"

\* What the provider may answer: a failure (HTTP error, network error) with
\* its message, or a response with its text (the rewritten report, possibly
\* empty), the caption extracted from the image (possibly empty), and
\* whether the text parses as JSON.
Responses ==
    {[ok |-> FALSE, message |-> "API Error: 500", rewritten |-> "", extractedOriginal |-> "", parses |-> TRUE],
     [ok |-> TRUE, message |-> "", rewritten |-> "report", extractedOriginal |-> "extracted", parses |-> TRUE],
     [ok |-> TRUE, message |-> "", rewritten |-> "", extractedOriginal |-> "", parses |-> TRUE],
     [ok |-> TRUE, message |-> "", rewritten |-> "report", extractedOriginal |-> "", parses |-> FALSE],
     [ok |-> TRUE, message |-> "", rewritten |-> "note Final Caption: report", extractedOriginal |-> "", parses |-> TRUE],
     [ok |-> TRUE, message |-> "", rewritten |-> "Final Caption: ", extractedOriginal |-> "", parses |-> TRUE]}

Rejected(message) ==
    [ok |-> FALSE, message |-> message, rewritten |-> Undefined, extractedOriginal |-> Undefined]

Resolved(rewritten, extractedOriginal) ==
    [ok |-> TRUE, message |-> Undefined, rewritten |-> rewritten, extractedOriginal |-> extractedOriginal]

\* callOpenAICompatibleApi after its fetch
OpenAIResult(input, response) ==
    IF ~response.ok
    THEN Rejected(OrElse(response.message, "Failed to rewrite caption via external provider"))
    ELSE Resolved(OrElse(response.rewritten, "No response generated"), input.text)

\* rewriteCaption after its request: the settled value of the promise
RewriteCaptionResult(modelName, input, response) ==
    IF ~Includes(modelName, "gemini") THEN OpenAIResult(input, response)
    ELSE IF ~response.ok
    THEN Rejected(OrElse(response.message, "Failed to rewrite caption"))
    ELSE IF Truthy(input.imageData)
    THEN IF response.parses
         THEN Resolved(OrElse(response.rewritten, "Failed to generate caption"),
                       OrElse(response.extractedOriginal, OrElse(input.text, "")))
         ELSE Resolved(OrElse(response.rewritten, "{}"), input.text)
    ELSE Resolved(OrElse(response.rewritten, "No response generated"), input.text)

(* ------------------------------- state -------------------------------- *)
VARIABLES
    apiKey,             \* useState('') : the API key typed in the settings
    selectedModel,      \* useState('gemini-3-pro-preview')
    data,               \* useState<CaptionRow[]>([]) : the row list
    isProcessing,       \* useState(false)
    processingStats,    \* useState({ total, completed, failed })
    historySessions,    \* useState<HistorySession[]>([]) : the sidebar's list
    stopProcessingRef,  \* useRef(false) : the one stop flag all runs share
    localStorage,       \* the parsed value stored under STORAGE_KEY
    runs,               \* the startProcessing calls made so far, each with
                        \* its closure: queue, cursor, awaited calls
    nCreated,           \* rows created so far
    nSaved,             \* sessions saved so far (fresh session ids)
    deleted,            \* ids of the sessions deleteSession was called with
    crashed,            \* a render threw: React unmounted the App
    alert,              \* the text of the last alert() shown, "" before any
    uploadMode,         \* useState<UploadMode>('excel') : the selected tab
    matching,           \* the handleMatchImageUpload calls awaiting a file read
    downloaded          \* the workbook handleDownload wrote last

vars == <<apiKey, selectedModel, data, isProcessing, processingStats,
          historySessions, stopProcessingRef, localStorage, runs, nCreated,
          nSaved, deleted, crashed, alert, uploadMode, matching, downloaded>>

settingsVars == <<apiKey, selectedModel>>
historyVars == <<historySessions, localStorage, nSaved, deleted>>
fileVars == <<uploadMode, matching, downloaded>>

\* no workbook written yet
NoFile == [source |-> << >>, headers |-> << >>, cells |-> << >>]

Init ==
    /\ apiKey = ""
    /\ selectedModel = "gemini-3-pro-preview"
    /\ data = << >>
    /\ isProcessing = FALSE
    /\ processingStats = [total |-> 0, completed |-> 0, failed |-> 0]
    /\ historySessions = << >>
    /\ stopProcessingRef = FALSE
    /\ localStorage = << >>
    /\ runs = << >>
    /\ nCreated = 0
    /\ nSaved = 0
    /\ deleted = {}
    /\ crashed = FALSE
    /\ alert = ""
    /\ uploadMode = "excel"
    /\ matching = << >>
    /\ downloaded = NoFile

(* ------------------------------ alerts -------------------------------- *)
NeedKeyAlert == "enter your API key in the settings"
SavedAlert == "session saved to the history list"
SaveFailedAlert == "saving the history failed, storage may be full"
EmptySessionAlert == "the session is empty or malformed"

(* ------------------- the worker's three write-backs ------------------- *)
\* setData(prev => ...) before the call: status 'processing', error cleared
MarkProcessing(prev, originalIndex) ==
    LET newData == Spread(prev)
    IN AssignAt(newData, originalIndex,
                [SpreadAt(newData, originalIndex) EXCEPT
                    !.status = "processing", !.error = Undefined])

\* setData(prev => ...) after the call resolved
WriteCompleted(prev, originalIndex, result) ==
    LET newData == Spread(prev)
        old == SpreadAt(newData, originalIndex)
    IN AssignAt(newData, originalIndex,
                [old EXCEPT !.status = "completed",
                            !.rewritten = result.rewritten,
                            !.original = OrElse(result.extractedOriginal, old.original)])

\* setData(prev => ...) after the call rejected
WriteError(prev, originalIndex, message) ==
    LET newData == Spread(prev)
    IN AssignAt(newData, originalIndex,
                [SpreadAt(newData, originalIndex) EXCEPT
                    !.status = "error", !.error = message])

\* the input object the worker builds from the row it captured
WorkerInput(item) ==
    [text |-> OrElse(item.original, Undefined),
     imageData |-> OrElse(item.imageData, Undefined)]

\* data.map((item, index) => ({ item, index })).filter(pending or error):
\* map and filter skip the holes of a sparse array
RECURSIVE ItemsToProcess(_, _)
ItemsToProcess(d, from) ==
    IF from > Len(d) THEN << >>
    ELSE IF IsRow(d[from]) /\ d[from].status \in {"pending", "error"}
         THEN <<[item |-> d[from], index |-> from]>> \o ItemsToProcess(d, from + 1)
         ELSE ItemsToProcess(d, from + 1)

\* The loop of `free` workers of one run that are not awaiting a call, run
\* until each of them awaits a network request or has returned.  s holds the
\* row list, the stats and the run's closure; a worker whose call throws
\* before any request writes the error back and claims again in the same
\* task.  The stop flag cannot change inside a task.
RECURSIVE worker(_, _, _)
\* (a worker whose claim moves the cursor twice)
workerSkips(s, free, stop) ==
    IF free = 0 \/ stop \/ s.run.index >= Len(s.run.itemsToProcess) THEN s
    ELSE LET currentIndex ==
                 IF s.run.index + 2 <= Len(s.run.itemsToProcess)
                 THEN s.run.index + 2 ELSE s.run.index + 1
             entry == s.run.itemsToProcess[currentIndex]
         IN [data |-> MarkProcessing(s.data, entry.index), stats |-> s.stats,
             run |-> [s.run EXCEPT !.index = currentIndex,
                                   !.calls[currentIndex] = @ + 1,
                                   !.awaiting = @ \cup {currentIndex}]]

worker(s, free, stop) ==
    IF free = 0 \/ stop \/ s.run.index >= Len(s.run.itemsToProcess) THEN s
    ELSE LET currentIndex == s.run.index + 1
             entry == s.run.itemsToProcess[currentIndex]
             thrown == RewriteCaptionThrows(s.run.apiKey, s.run.selectedModel,
                                            WorkerInput(entry.item))
             claimed == [s.run EXCEPT !.index = currentIndex,
                                      !.calls[currentIndex] = @ + 1]
             marked == MarkProcessing(s.data, entry.index)
         IN IF thrown # NoThrow
            THEN worker([data |-> WriteError(marked, entry.index, thrown),
                         stats |-> [s.stats EXCEPT !.failed = @ + 1],
                         run |-> claimed], free, stop)
            ELSE worker([data |-> marked, stats |-> s.stats,
                         run |-> [claimed EXCEPT !.awaiting = @ \cup {currentIndex}]],
                        free - 1, stop)

\* All workers of the run have returned: Promise.all has resolved.
RunSettled(run) == run.awaiting = {}

\* Once settled, a run's closure is unreachable and its queue is dropped;
\* the run keeps its history (calls, stopRequested, indexAtStop).
Released(run) ==
    IF RunSettled(run) THEN [run EXCEPT !.itemsToProcess = << >>] ELSE run

NoFurtherRuns == Len(runs) >= MaxRuns

(* ----------------------------- settings ------------------------------- *)
SetApiKey(key) ==
    /\ ~crashed
    /\ apiKey # key
    /\ apiKey' = key
    /\ UNCHANGED <<selectedModel, data, isProcessing, processingStats,
                   stopProcessingRef, runs, nCreated, crashed, alert>>
    /\ UNCHANGED historyVars
    /\ UNCHANGED fileVars

SetSelectedModel(modelName) ==
    /\ ~crashed
    /\ selectedModel # modelName
    /\ selectedModel' = modelName
    /\ UNCHANGED <<apiKey, data, isProcessing, processingStats,
                   stopProcessingRef, runs, nCreated, crashed, alert>>
    /\ UNCHANGED historyVars
    /\ UNCHANGED fileVars

\* setUploadMode: the tabs are rendered only while the row list is empty
SetUploadMode(mode) ==
    /\ ~crashed
    /\ Len(data) = 0
    /\ uploadMode # mode
    /\ uploadMode' = mode
    /\ UNCHANGED <<data, isProcessing, processingStats, stopProcessingRef, runs,
                   nCreated, crashed, alert, matching, downloaded>>
    /\ UNCHANGED settingsVars
    /\ UNCHANGED historyVars

(* --------------------------- creating rows ---------------------------- *)
\* uuidv4() gives an id no live object carries.  The ids in use are those
\* of the rows of the list, of the rows the workers captured and of the
\* rows of the saved sessions; the i-th id a handler draws is the i-th
\* smallest positive number not in use.
RowIds(d) == {d[i].id : i \in 1..Len(d)}

UsedIds ==
    UNION ({RowIds(data)}
           \cup {{runs[r].itemsToProcess[p].item.id : p \in 1..Len(runs[r].itemsToProcess)} :
                     r \in 1..Len(runs)}
           \cup {RowIds(historySessions[k].data) : k \in 1..Len(historySessions)}
           \cup {RowIds(localStorage[k].data) : k \in 1..Len(localStorage)})

uuidv4(i) ==
    LET free == (1..(Cardinality(UsedIds) + i)) \ UsedIds
    IN CHOOSE id \in free : Cardinality({x \in free : x < id}) = i - 1

\* The upload area is rendered only while the row list is empty.
UploadAreaShown == ~crashed /\ Len(data) = 0

(* ------------------------------- text --------------------------------- *)
\* The characters of the strings that are diffed, trimmed or matched.  The
\* keyword of the report's last section ("Final Caption", "Rewritten
\* Caption", ...) is one token; a string that is not listed is one token.
FinalCaption == "Final Caption"

Chars(str) ==
    CASE str = "" -> << >>
      [] str = " " -> <<" ">>
      [] str = "caption" -> <<"c", "a", "p", "t", "i", "o", "n">>
      [] str = "report" -> <<"r", "e", "p", "o", "r", "t">>
      [] str = "note Final Caption: report" ->
            <<"n", "o", "t", "e", " ", FinalCaption, ":", " ", "r", "e", "p", "o", "r", "t">>
      [] str = "Final Caption: " -> <<FinalCaption, ":", " ">>
      [] OTHER -> <<str>>

Texts ==
    {"", " ", "caption", "report", "note Final Caption: report", "Final Caption: ",
     "extracted", "a.png", "No response generated", "Failed to generate caption",
     "{}", "pending", "processing", "completed", "error"}

\* the string with the given characters
Str(chars) ==
    IF chars = << >> THEN ""
    ELSE IF Len(chars) = 1 THEN chars[1]
    ELSE CHOOSE str \in Texts : Chars(str) = chars

\* String.prototype.trim on the characters
RECURSIVE TrimStart(_)
TrimStart(chars) ==
    IF chars # << >> /\ Head(chars) = " " THEN TrimStart(Tail(chars)) ELSE chars

RECURSIVE TrimEnd(_)
TrimEnd(chars) ==
    IF chars # << >> /\ chars[Len(chars)] = " "
    THEN TrimEnd(SubSeq(chars, 1, Len(chars) - 1)) ELSE chars

Trim(chars) == TrimEnd(TrimStart(chars))

\* /(?:keyword)\s*[:]\s*([\s\S]+)$/ at position k of the characters: the
\* group the match captures, or << >> when there is no match at k.  Both \s*
\* are greedy and give characters back only as far as the group needs one.
RECURSIVE SkipSpaces(_, _)
SkipSpaces(chars, k) ==
    IF k <= Len(chars) /\ chars[k] = " " THEN SkipSpaces(chars, k + 1) ELSE k

MatchAt(chars, k) ==
    IF chars[k] # FinalCaption THEN << >>
    ELSE LET colon == SkipSpaces(chars, k + 1)
         IN IF colon > Len(chars) \/ chars[colon] # ":" THEN << >>
            ELSE LET rest == SkipSpaces(chars, colon + 1)
                 IN IF rest <= Len(chars) THEN SubSeq(chars, rest, Len(chars))
                    ELSE IF rest - 1 > colon THEN <<" ">>
                    ELSE << >>

\* the leftmost match of the pattern, from position k on
RECURSIVE Match(_, _)
Match(chars, k) ==
    IF k > Len(chars) THEN << >>
    ELSE IF MatchAt(chars, k) # << >> THEN MatchAt(chars, k)
    ELSE Match(chars, k + 1)

\* extractRewrittenText: the characters of the clean rewritten caption
extractRewrittenText(fullText) ==
    IF ~Truthy(fullText) THEN << >>
    ELSE LET group == Match(Chars(fullText), 1)
         IN IF group # << >> THEN Trim(group) ELSE Chars(fullText)

(* ------------------------------- diff --------------------------------- *)
\* Diff.diffChars: a shortest edit script from oldChars to newChars, one
\* entry per character, a removal before an insertion where both are as
\* short
Part(value, kind) == [value |-> value, kind |-> kind]

Edits(parts) == Cardinality({k \in 1..Len(parts) : parts[k].kind # "common"})

RECURSIVE Script(_, _)
Script(oldChars, newChars) ==
    IF oldChars = << >>
    THEN [k \in 1..Len(newChars) |-> Part(<<newChars[k]>>, "added")]
    ELSE IF newChars = << >>
    THEN [k \in 1..Len(oldChars) |-> Part(<<oldChars[k]>>, "removed")]
    ELSE IF Head(oldChars) = Head(newChars)
    THEN <<Part(<<Head(oldChars)>>, "common")>> \o Script(Tail(oldChars), Tail(newChars))
    ELSE LET removal == <<Part(<<Head(oldChars)>>, "removed")>> \o Script(Tail(oldChars), newChars)
             insertion == <<Part(<<Head(newChars)>>, "added")>> \o Script(oldChars, Tail(newChars))
         IN IF Edits(removal) <= Edits(insertion) THEN removal ELSE insertion

\* the characters of the entries of one kind, in order
RECURSIVE ValueOf(_, _)
ValueOf(parts, kind) ==
    IF parts = << >> THEN << >>
    ELSE (IF Head(parts).kind = kind THEN Head(parts).value ELSE << >>)
         \o ValueOf(Tail(parts), kind)

\* the length of the longest prefix of the script that is all common
\* (common = TRUE) or all changes (common = FALSE)
RECURSIVE RunLength(_, _)
RunLength(parts, common) ==
    IF parts = << >> \/ (Head(parts).kind = "common") # common THEN 0
    ELSE 1 + RunLength(Tail(parts), common)

\* the parts diffChars returns: maximal runs of common characters, and for
\* each run of changes the removed characters, then the added ones
RECURSIVE Components(_)
Components(parts) ==
    IF parts = << >> THEN << >>
    ELSE LET common == Head(parts).kind = "common"
             n == RunLength(parts, common)
             run == SubSeq(parts, 1, n)
             rest == Components(SubSeq(parts, n + 1, Len(parts)))
         IN IF common THEN <<Part(ValueOf(run, "common"), "common")>> \o rest
            ELSE (IF ValueOf(run, "removed") # << >>
                  THEN <<Part(ValueOf(run, "removed"), "removed")>> ELSE << >>)
                 \o (IF ValueOf(run, "added") # << >>
                     THEN <<Part(ValueOf(run, "added"), "added")>> ELSE << >>)
                 \o rest

\* two empty strings give one empty unchanged part
diffChars(oldChars, newChars) ==
    IF oldChars = << >> /\ newChars = << >> THEN <<Part(<< >>, "common")>>
    ELSE Components(Script(oldChars, newChars))

\* The runs of one column of the comparison, in DiffView and in exportToCSV
\* alike: the original column skips the added parts and highlights the
\* removed ones, the rewritten column skips the removed parts and highlights
\* the added ones.
RECURSIVE Runs(_, _, _)
Runs(diff, skipped, highlighted) ==
    IF diff = << >> THEN << >>
    ELSE (IF Head(diff).kind = skipped THEN << >>
          ELSE <<[t |-> Head(diff).value, highlight |-> Head(diff).kind = highlighted]>>)
         \o Runs(Tail(diff), skipped, highlighted)

\* the characters a sequence of runs shows
RECURSIVE Shown(_)
Shown(spans) == IF spans = << >> THEN << >> ELSE Head(spans).t \o Shown(Tail(spans))

\* DiffView({ original, rewritten, type }): the spans it renders
DiffView(original, rewritten, type) ==
    LET cleanRewritten == extractRewrittenText(rewritten)
        diff == diffChars(Chars(OrElse(original, "")), cleanRewritten)
    IN IF type = "original" THEN Runs(diff, "added", "removed")
       ELSE Runs(diff, "removed", "added")

(* ----------------------------- workbooks ------------------------------ *)
\* A workbook file: the header row and the data rows of its first sheet.  A
\* cell has a value v (NoCell when the sheet has no cell there) and, when
\* exportToCSV built it, its rich text runs r.  source is the row list a
\* workbook was exported from (history).
NoCell == "<no cell>"

Cell(v) == [v |-> v, r |-> << >>]

NotAWorkbook == [source |-> << >>, headers |-> << >>, cells |-> <<"not a workbook">>]

\* k.toLowerCase().includes(pattern) for the header names of the sheets
\* ("miaoshu" and "tupian" stand for the two Chinese patterns)
LowerIncludes(k, pattern) ==
    <<k, pattern>> \in {<<"Caption", "caption">>,
                        <<"Original Caption (Diff)", "caption">>,
                        <<"Rewritten Caption (Diff)", "caption">>,
                        <<"Description", "desc">>,
                        <<"Image Path", "path">>,
                        <<"Image Path", "image">>}

\* XLSX.utils.sheet_to_json: one object per data row that has a cell, its
\* keys the headers of the cells the row has, in column order
RowObject(headers, row) ==
    LET present == {c \in 1..Len(headers) : row[c].v # NoCell}
        column(k) == CHOOSE c \in present : Cardinality({d \in present : d < c}) = k - 1
    IN [k \in 1..Cardinality(present) |->
           [key |-> headers[column(k)], value |-> row[column(k)].v]]

RECURSIVE RowObjects(_, _)
RowObjects(headers, rows) ==
    IF rows = << >> THEN << >>
    ELSE LET object == RowObject(headers, Head(rows))
         IN (IF object = << >> THEN << >> ELSE <<object>>)
            \o RowObjects(headers, Tail(rows))

\* parseExcel: the objects of the first sheet
parseExcel(file) == RowObjects(file.headers, file.cells)

\* Object.keys(row).find(predicate): the position of the first key that
\* satisfies it, 0 when none does
Find(object, Test(_)) ==
    LET hits == {k \in 1..Len(object) : Test(object[k].key)}
    IN IF hits = {} THEN 0 ELSE CHOOSE k \in hits : \A h \in hits : k <= h

IsCaptionKey(k) ==
    LowerIncludes(k, "caption") \/ LowerIncludes(k, "desc") \/ LowerIncludes(k, "miaoshu")

IsImageKey(k) ==
    \/ LowerIncludes(k, "path") \/ LowerIncludes(k, "image")
    \/ LowerIncludes(k, "img") \/ LowerIncludes(k, "tupian")

\* the key handleExcelUpload reads the caption from: the first key that
\* names a caption, else the row's first key
CaptionKey(object) ==
    IF Find(object, IsCaptionKey) # 0 THEN Find(object, IsCaptionKey) ELSE 1

\* jsonData.map(...) without the id, then .filter(...): the fields of the
\* rows handleExcelUpload creates
RECURSIVE ProcessedData(_)
ProcessedData(jsonData) ==
    IF jsonData = << >> THEN << >>
    ELSE LET row == Head(jsonData)
             imageKey == Find(row, IsImageKey)
             original == OrElse(row[CaptionKey(row)].value, "")
             imagePath == IF imageKey # 0 THEN row[imageKey].value ELSE Undefined
         IN (IF Truthy(original) /\ Trim(Chars(original)) # << >>
             THEN <<[original |-> original, imagePath |-> imagePath]>>
             ELSE << >>)
            \o ProcessedData(Tail(jsonData))

\* a sheet of n captions, with or without an image path column
CaptionSheet(n, withPath) ==
    [source |-> << >>,
     headers |-> IF withPath THEN <<"Caption", "Image Path">> ELSE <<"Caption">>,
     cells |-> [i \in 1..n |->
                  IF withPath THEN <<Cell("caption"), Cell("a.png")>>
                  ELSE <<Cell("caption")>>]]

ParseFailedAlert == "parsing the Excel file failed"

\* handleExcelUpload with the chosen file
handleExcelUpload(file) ==
    /\ UploadAreaShown
    /\ uploadMode \in {"excel", "match"}
    /\ IF file = NotAWorkbook
       THEN /\ alert' = ParseFailedAlert
            /\ UNCHANGED <<data, processingStats, nCreated>>
       ELSE LET processedData == ProcessedData(parseExcel(file))
                n == Len(processedData)
            IN /\ nCreated + n <= MaxCreated
               /\ nCreated' = nCreated + n
               /\ data' = [i \in 1..n |->
                             CaptionRow(uuidv4(i), processedData[i].original, Null,
                                        "pending", processedData[i].imagePath,
                                        Undefined, Undefined)]
               /\ processingStats' = [total |-> n, completed |-> 0, failed |-> 0]
               /\ UNCHANGED alert
    /\ UNCHANGED <<isProcessing, stopProcessingRef, runs, crashed>>
    /\ UNCHANGED settingsVars
    /\ UNCHANGED historyVars
    /\ UNCHANGED fileVars

\* handleImageUpload with n image files
handleImageUpload(n) ==
    /\ UploadAreaShown
    /\ uploadMode = "image"
    /\ nCreated + n <= MaxCreated
    /\ nCreated' = nCreated + n
    /\ data' = data \o [i \in 1..n |->
                  CaptionRow(uuidv4(i), "", Null, "pending", "a.png",
                             "data:image", Undefined)]
    /\ processingStats' = [processingStats EXCEPT !.total = @ + n]
    /\ UNCHANGED <<isProcessing, stopProcessingRef, runs, crashed, alert>>
    /\ UNCHANGED settingsVars
    /\ UNCHANGED historyVars
    /\ UNCHANGED fileVars

\* addManualEntry with the text and the image of the manual form
addManualEntry(manualText, manualImagePreview) ==
    /\ UploadAreaShown
    /\ uploadMode = "manual"
    /\ Truthy(manualText) \/ Truthy(manualImagePreview)
    /\ nCreated + 1 <= MaxCreated
    /\ nCreated' = nCreated + 1
    /\ data' = Append(data,
                  CaptionRow(uuidv4(1), manualText, Null, "pending",
                             IF Truthy(manualImagePreview) THEN "a.png" ELSE Undefined,
                             OrElse(manualImagePreview, Undefined), Undefined))
    /\ processingStats' = [processingStats EXCEPT !.total = @ + 1]
    /\ UNCHANGED <<isProcessing, stopProcessingRef, runs, crashed, alert>>
    /\ UNCHANGED settingsVars
    /\ UNCHANGED historyVars
    /\ UNCHANGED fileVars

\* clearData: the button is rendered while there are rows and disabled
\* while isProcessing
clearData ==
    /\ ~crashed
    /\ Len(data) > 0
    /\ ~isProcessing
    /\ data' = << >>
    /\ processingStats' = [total |-> 0, completed |-> 0, failed |-> 0]
    /\ isProcessing' = FALSE
    /\ stopProcessingRef' = FALSE
    /\ UNCHANGED <<runs, crashed, alert>>
    /\ UNCHANGED <<settingsVars, nCreated>>
    /\ UNCHANGED historyVars
    /\ UNCHANGED fileVars

(* --------------------------- matching images -------------------------- *)
\* path.endsWith(name), path.endsWith('/' + name), path.endsWith('\\' + name)
\* for the image paths and file names drawn
EndsWith(path, name) == <<path, name>> \in {<<"a.png", "a.png">>}

\* findMatch: whether one of the chosen files matches the row's imagePath
FindMatch(files, path) ==
    Truthy(path) /\ (path \in files \/ \E name \in files : EndsWith(path, name))

\* The for loop of handleMatchImageUpload from row i on, up to its next
\* await: "await" at the row whose file is being read, "done" past the last
\* row, "threw" at a slot that holds no object (reading its imageData throws
\* and the handler's promise rejects).
RECURSIVE MatchLoop(_, _, _)
MatchLoop(newData, files, i) ==
    IF i > Len(newData) THEN [at |-> "done", i |-> i]
    ELSE IF ~IsRow(newData[i]) THEN [at |-> "threw", i |-> i]
    ELSE IF Truthy(newData[i].imageData) THEN MatchLoop(newData, files, i + 1)
    ELSE IF FindMatch(files, newData[i].imagePath) THEN [at |-> "await", i |-> i]
    ELSE MatchLoop(newData, files, i + 1)

\* updates.forEach(u => { newData[u.index].imageData = u.dataUrl }) on an
\* array of rows: the assignment changes the row object itself
Updated(rows, updates) ==
    [i \in 1..Len(rows) |->
        IF i \in updates THEN [rows[i] EXCEPT !.imageData = "data:image"] ELSE rows[i]]

\* The same assignments seen through the queue of a run: a queued item is
\* the object that was in the list when the run started, and it is the
\* object of the snapshot when it has the same place, id and fields (the row
\* was not written in between).
UpdatedQueue(run, newData, updates) ==
    [run EXCEPT !.itemsToProcess =
        [p \in 1..Len(@) |->
            IF @[p].index \in updates /\ @[p].item = newData[@[p].index]
            THEN [@[p] EXCEPT !.item.imageData = "data:image"]
            ELSE @[p]]]

MatchedAlert == "images matched and loaded"

\* handleMatchImageUpload from the point where its loop stands: it awaits
\* the next file read, or assigns the images read, sets the row list to its
\* copy of the list it started from, and alerts, or it has thrown
MatchContinues(others, call, at) ==
    IF at.at = "await"
    THEN /\ matching' = Append(others, [call EXCEPT !.i = at.i])
         /\ UNCHANGED <<data, runs, crashed, alert>>
    ELSE IF at.at = "threw"
    THEN /\ matching' = others
         /\ UNCHANGED <<data, runs, crashed, alert>>
    ELSE /\ matching' = [k \in 1..Len(others) |->
                            [others[k] EXCEPT !.newData =
                                [i \in 1..Len(@) |->
                                    IF i \in call.updates /\ i <= Len(call.newData)
                                       /\ @[i] = call.newData[i]
                                    THEN [@[i] EXCEPT !.imageData = "data:image"]
                                    ELSE @[i]]]]
         /\ runs' = [r \in 1..Len(runs) |->
                        UpdatedQueue(runs[r], call.newData, call.updates)]
         /\ alert' = MatchedAlert
         /\ IF crashed THEN UNCHANGED <<data, crashed>>
            ELSE /\ data' = Updated(call.newData, call.updates)
                 /\ crashed' = RenderThrows(data')

\* handleMatchImageUpload with the chosen files: the button is rendered in
\* match mode while there are rows
handleMatchImageUpload(files) ==
    /\ ~crashed
    /\ Len(data) > 0
    /\ uploadMode = "match"
    /\ files # {}
    /\ Len(matching) < MaxMatching
    /\ LET call == [newData |-> Spread(data), files |-> files, updates |-> {}, i |-> 0]
       IN MatchContinues(matching, call, MatchLoop(call.newData, files, 1))
    /\ UNCHANGED <<isProcessing, processingStats, stopProcessingRef, nCreated,
                   uploadMode, downloaded>>
    /\ UNCHANGED settingsVars
    /\ UNCHANGED historyVars

\* fileToDataURL settles for call k of handleMatchImageUpload: the image
\* read is recorded (or the failure logged) and the loop goes on
matchFileRead(k, read) ==
    /\ k \in 1..Len(matching)
    /\ LET call == matching[k]
           others == [j \in 1..(Len(matching) - 1) |->
                         IF j < k THEN matching[j] ELSE matching[j + 1]]
           next == [call EXCEPT !.updates = IF read THEN @ \cup {call.i} ELSE @]
       IN MatchContinues(others, next, MatchLoop(call.newData, call.files, call.i + 1))
    /\ UNCHANGED <<isProcessing, processingStats, stopProcessingRef, nCreated,
                   uploadMode, downloaded>>
    /\ UNCHANGED settingsVars
    /\ UNCHANGED historyVars

(* ------------------------------ export -------------------------------- *)
\* data.map(item => ({ 'ID': ..., ... })) and the forEach of exportToCSV:
\* both skip the holes of a sparse array
RECURSIVE ExportData(_)
ExportData(d) ==
    IF d = << >> THEN << >>
    ELSE (IF IsRow(Head(d)) THEN <<Head(d)>> ELSE << >>) \o ExportData(Tail(d))

\* sheet_add_aoa: undefined adds no cell
AoaCell(v) == IF v = Undefined THEN Cell(NoCell) ELSE Cell(v)

\* A rich text cell { t: 's', r: runs } has no value of its own (nor has
\* { t: 's' }, what the cell is when there are no runs).  Whether the
\* workbook writer keeps such a cell is not decided by this code: when it
\* does, the text read back is what the runs show.
RichTextCell(spans, richTextKept) ==
    [v |-> IF richTextKept THEN Str(Shown(spans)) ELSE NoCell, r |-> spans]

\* (an export whose rewritten column is compared with the whole report)
ExportedRowWholeReport(item, richTextKept) ==
    LET diff == diffChars(Chars(OrElse(item.original, "")),
                          Chars(OrElse(item.rewritten, "")))
    IN <<AoaCell(IF item.id = 0 THEN Undefined ELSE ToString(item.id)),
         RichTextCell(Runs(diff, "added", "removed"), richTextKept),
         RichTextCell(Runs(diff, "removed", "added"), richTextKept),
         AoaCell(OrElse(item.imagePath, "")),
         AoaCell(item.status),
         AoaCell(OrElse(item.error, ""))>>

\* exportToCSV, one item: the cells of its row (ID, the two compared
\* columns, Image Path, Status, Error)
ExportedRow(item, richTextKept) ==
    LET originalText == OrElse(item.original, "")
        rawRewritten == OrElse(OrElse(item.rewritten, ""), "")
        cleanRewritten == extractRewrittenText(rawRewritten)
        diff == diffChars(Chars(originalText), cleanRewritten)
    IN <<AoaCell(IF item.id = 0 THEN Undefined ELSE ToString(item.id)),
         RichTextCell(Runs(diff, "added", "removed"), richTextKept),
         RichTextCell(Runs(diff, "removed", "added"), richTextKept),
         AoaCell(OrElse(item.imagePath, "")),
         AoaCell(item.status),
         AoaCell(OrElse(item.error, ""))>>

\* exportToCSV: the workbook written
exportToCSV(exportData, richTextKept) ==
    [source |-> exportData,
     headers |-> <<"ID", "Original Caption (Diff)", "Rewritten Caption (Diff)",
                   "Image Path", "Status", "Error">>,
     cells |-> [i \in 1..Len(exportData) |-> ExportedRow(exportData[i], richTextKept)]]

\* handleDownload: the button is rendered while there are rows
handleDownload(richTextKept) ==
    /\ ~crashed
    /\ Len(data) > 0
    /\ downloaded' = exportToCSV(ExportData(data), richTextKept)
    /\ UNCHANGED <<data, isProcessing, processingStats, stopProcessingRef, runs,
                   nCreated, crashed, alert, uploadMode, matching>>
    /\ UNCHANGED settingsVars
    /\ UNCHANGED historyVars

(* ------------------------ the batch processor ------------------------- *)
\* The start button replaces the stop button while ~isProcessing; it is
\* disabled once every row is completed and none failed.
StartButtonEnabled ==
    /\ ~crashed
    /\ Len(data) > 0
    /\ ~isProcessing
    /\ ~(/\ processingStats.completed = processingStats.total
         /\ processingStats.total > 0
         /\ processingStats.failed = 0)

\* The closure of one startProcessing call.  calls, stopRequested and
\* indexAtStop are history: how often rewriteCaption was invoked for each
\* queue position, whether stopProcessing was called while the run had
\* workers, and where the cursor was then.
NewRun(items) ==
    [itemsToProcess |-> items, index |-> 0, awaiting |-> {},
     apiKey |-> apiKey, selectedModel |-> selectedModel,
     calls |-> [p \in 1..Len(items) |-> 0],
     stopRequested |-> FALSE, indexAtStop |-> 0, hung |-> {}]
\* (a handler that raises the processing flag before it checks the key)
startProcessingFlagsFirst ==
    /\ StartButtonEnabled
    /\ IF ~Truthy(apiKey)
       THEN /\ alert' = NeedKeyAlert
            /\ isProcessing' = TRUE
            /\ stopProcessingRef' = FALSE
            /\ UNCHANGED <<data, processingStats, runs, crashed>>
            /\ UNCHANGED <<settingsVars, nCreated>>
            /\ UNCHANGED historyVars
            /\ UNCHANGED fileVars
       ELSE IF Len(data) = 0      \* if (data.length === 0) return;
       THEN UNCHANGED vars
       ELSE LET s == worker([data |-> data, stats |-> processingStats,
                             run |-> NewRun(ItemsToProcess(data, 1))],
                            CONCURRENCY, FALSE)
            IN /\ ~NoFurtherRuns
               /\ data' = s.data
               /\ processingStats' = s.stats
               /\ runs' = Append(runs, Released(s.run))
               /\ stopProcessingRef' = FALSE
               /\ isProcessing' = ~RunSettled(s.run)
               /\ crashed' = RenderThrows(s.data)
               /\ UNCHANGED alert
               /\ UNCHANGED <<settingsVars, nCreated>>
               /\ UNCHANGED historyVars
               /\ UNCHANGED fileVars

\* startProcessing up to `await Promise.all(workers)`, and past it when no
\* worker awaits a request
startProcessing ==
    /\ StartButtonEnabled
    /\ IF ~Truthy(apiKey)
       THEN /\ alert' = NeedKeyAlert
            /\ UNCHANGED <<data, isProcessing, processingStats, stopProcessingRef,
                           runs, crashed>>
            /\ UNCHANGED <<settingsVars, nCreated>>
            /\ UNCHANGED historyVars
            /\ UNCHANGED fileVars
       ELSE IF Len(data) = 0      \* if (data.length === 0) return;
       THEN UNCHANGED vars
       ELSE LET s == worker([data |-> data, stats |-> processingStats,
                             run |-> NewRun(ItemsToProcess(data, 1))],
                            CONCURRENCY, FALSE)
            IN /\ ~NoFurtherRuns
               /\ data' = s.data
               /\ processingStats' = s.stats
               /\ runs' = Append(runs, Released(s.run))
               /\ stopProcessingRef' = FALSE
               /\ isProcessing' = ~RunSettled(s.run)
               /\ crashed' = RenderThrows(s.data)
               /\ UNCHANGED alert
               /\ UNCHANGED <<settingsVars, nCreated>>
               /\ UNCHANGED historyVars
               /\ UNCHANGED fileVars

\* stopProcessing: the stop button is rendered while isProcessing
stopProcessing ==
    /\ ~crashed
    /\ Len(data) > 0
    /\ isProcessing
    /\ stopProcessingRef' = TRUE
    /\ isProcessing' = FALSE
    /\ runs' = [r \in 1..Len(runs) |->
                  IF RunSettled(runs[r]) \/ runs[r].stopRequested THEN runs[r]
                  ELSE [runs[r] EXCEPT !.stopRequested = TRUE,
                                       !.indexAtStop = runs[r].index]]
    /\ UNCHANGED <<data, processingStats, crashed, alert>>
    /\ UNCHANGED <<settingsVars, nCreated>>
    /\ UNCHANGED historyVars
    /\ UNCHANGED fileVars

\* The row list, the stats and the closure of run r after the worker that
\* awaited the call for queue position currentIndex wrote the outcome back
WrittenBack(r, currentIndex, response) ==
    LET run == runs[r]
        entry == run.itemsToProcess[currentIndex]
        result == RewriteCaptionResult(run.selectedModel, WorkerInput(entry.item), response)
        back == [run EXCEPT !.awaiting = @ \ {currentIndex}]
    IN IF result.ok
       THEN [data |-> WriteCompleted(data, entry.index, result),
             stats |-> [processingStats EXCEPT !.completed = @ + 1],
             run |-> back]
       ELSE [data |-> WriteError(data, entry.index, result.message),
             stats |-> [processingStats EXCEPT !.failed = @ + 1],
             run |-> back]

\* (a worker that returns after its first row)
ResumedReturns(r, currentIndex, response) == WrittenBack(r, currentIndex, response)

\* (a worker that drops the outcome of its call once a stop was requested)
ResumedAbortsOnStop(r, currentIndex, response) ==
    IF stopProcessingRef
    THEN [data |-> data, stats |-> processingStats,
          run |-> [runs[r] EXCEPT !.awaiting = @ \ {currentIndex}]]
    ELSE worker(WrittenBack(r, currentIndex, response), 1, stopProcessingRef)

\* (a worker that leaves its loop when a call fails)
ResumedBreaksOnError(r, currentIndex, response) ==
    LET written == WrittenBack(r, currentIndex, response)
    IN IF written.stats.failed > processingStats.failed
       THEN written
       ELSE worker(written, 1, stopProcessingRef)

\* The state after the worker of run r that awaited the call for queue
\* position currentIndex resumed with the provider's response: it writes the
\* outcome back, then loops; when it was the run's last worker, Promise.all
\* resolves and startProcessing sets isProcessing to false.
Resumed(r, currentIndex, response) ==
    worker(WrittenBack(r, currentIndex, response), 1, stopProcessingRef)

\* A set state call on the unmounted App changes nothing.
\* The call awaited for queue position currentIndex of run r never returns
\* (rewriteCaption has no timeout): its worker stays at the await.
callHangs(r, currentIndex) ==
    /\ r \in 1..Len(runs)
    /\ currentIndex \in runs[r].awaiting
    /\ runs[r].hung = {}
    /\ runs' = [runs EXCEPT ![r].hung = {currentIndex}]
    /\ UNCHANGED <<data, isProcessing, processingStats, stopProcessingRef, crashed, alert>>
    /\ UNCHANGED <<settingsVars, nCreated>>
    /\ UNCHANGED historyVars
    /\ UNCHANGED fileVars

workerResumes(r, currentIndex, response) ==
    /\ r \in 1..Len(runs)
    /\ currentIndex \in runs[r].awaiting
    /\ currentIndex \notin runs[r].hung
    /\ LET s == Resumed(r, currentIndex, response)
       IN /\ runs' = [runs EXCEPT ![r] = Released(s.run)]
          /\ IF crashed
             THEN UNCHANGED <<data, processingStats, isProcessing, crashed>>
             ELSE /\ data' = s.data
                  /\ processingStats' = s.stats
                  /\ isProcessing' = IF RunSettled(s.run) THEN FALSE ELSE isProcessing
                  /\ crashed' = RenderThrows(s.data)
    /\ UNCHANGED <<stopProcessingRef, alert>>
    /\ UNCHANGED <<settingsVars, nCreated>>
    /\ UNCHANGED historyVars
    /\ UNCHANGED fileVars

(* ------------------------- the history service ------------------------ *)
\* (a copy that keeps the image payload)
stripImageDataKeeps(d) ==
    [i \in 1..Len(d) |-> IF d[i].kind = "hole" THEN Hole ELSE SpreadAt(d, i)]

\* stripImageData: data.map(row => ({ ...row, imageData: undefined }));
\* map keeps the holes of a sparse array
stripImageData(d) ==
    [i \in 1..Len(d) |->
        IF d[i].kind = "hole" THEN Hole
        ELSE [SpreadAt(d, i) EXCEPT !.imageData = Undefined]]

\* JSON.parse(JSON.stringify(sessions)): properties whose value is undefined
\* are dropped, holes and undefined elements of an array become null
ParseStringify(sessions) ==
    [k \in 1..Len(sessions) |->
        [sessions[k] EXCEPT !.data =
            [i \in 1..Len(@) |-> IF @[i].kind = "row" THEN @[i] ELSE NullSlot]]]

\* getSessions: the stored list, [] when nothing is stored
getSessions == localStorage

\* (a slice that keeps every element)
SliceKeepsAll(seq, n) == seq

\* seq.slice(0, n)
Slice(seq, n) == SubSeq(seq, 1, IF Len(seq) < n THEN Len(seq) ELSE n)

\* saveSession: the session it builds and returns, the value it stores, and
\* whether localStorage.setItem threw (then nothing is stored and
\* saveSession throws)
saveSession(d, stats, quotaExceeded) ==
    LET sessions == getSessions
        newSession == [id |-> nSaved + 1, stats |-> stats, data |-> stripImageData(d)]
        updatedSessions == Slice(<<newSession>> \o sessions, SessionCap)
    IN [threw |-> quotaExceeded,
        newSession |-> newSession,
        stored |-> IF quotaExceeded THEN localStorage
                   ELSE ParseStringify(updatedSessions)]

\* deleteSession: the filtered list, stored and returned
RECURSIVE WithoutId(_, _)
WithoutId(sessions, id) ==
    IF sessions = << >> THEN << >>
    ELSE IF Head(sessions).id = id THEN WithoutId(Tail(sessions), id)
         ELSE <<Head(sessions)>> \o WithoutId(Tail(sessions), id)

deleteSession(id) == ParseStringify(WithoutId(getSessions, id))

\* (a handler that lists the session before saveSession has stored it)
handleSaveHistoryListsFirst(quotaExceeded) ==
    /\ ~crashed
    /\ Len(data) > 0
    /\ LET saved == saveSession(data, processingStats, quotaExceeded)
       IN /\ historySessions' = <<saved.newSession>> \o historySessions
          /\ localStorage' = saved.stored
          /\ nSaved' = nSaved + 1
          /\ alert' = IF saved.threw THEN SaveFailedAlert ELSE SavedAlert
          /\ UNCHANGED deleted
    /\ UNCHANGED <<data, isProcessing, processingStats, stopProcessingRef,
                   runs, crashed>>
    /\ UNCHANGED <<settingsVars, nCreated>>
    /\ UNCHANGED fileVars

\* handleSaveHistory: the save button is rendered while there are rows
handleSaveHistory(quotaExceeded) ==
    /\ ~crashed
    /\ Len(data) > 0
    /\ LET saved == saveSession(data, processingStats, quotaExceeded)
       IN IF saved.threw
          THEN /\ alert' = SaveFailedAlert
               /\ UNCHANGED historyVars
          ELSE /\ localStorage' = saved.stored
               /\ historySessions' = <<saved.newSession>> \o historySessions
               /\ nSaved' = nSaved + 1
               /\ alert' = SavedAlert
               /\ UNCHANGED deleted
    /\ UNCHANGED <<data, isProcessing, processingStats, stopProcessingRef,
                   runs, crashed>>
    /\ UNCHANGED <<settingsVars, nCreated>>
    /\ UNCHANGED fileVars

\* handleDeleteSession on a session of the sidebar's list
handleDeleteSession(k) ==
    /\ ~crashed
    /\ k \in 1..Len(historySessions)
    /\ LET updated == deleteSession(historySessions[k].id)
       IN /\ localStorage' = updated
          /\ historySessions' = updated
    /\ deleted' = deleted \cup {historySessions[k].id}
    /\ UNCHANGED <<data, isProcessing, processingStats, stopProcessingRef,
                   runs, crashed, alert, nSaved>>
    /\ UNCHANGED <<settingsVars, nCreated>>
    /\ UNCHANGED fileVars

\* session.data.map(item => ({ ...item })) : map keeps holes
CopyRows(d) ==
    [i \in 1..Len(d) |-> IF d[i].kind = "hole" THEN Hole ELSE SpreadAt(d, i)]

\* handleLoadSession on a session of the sidebar's list
handleLoadSession(k) ==
    /\ ~crashed
    /\ k \in 1..Len(historySessions)
    /\ LET session == historySessions[k]
       IN IF Len(session.data) = 0
          THEN /\ alert' = EmptySessionAlert
               /\ UNCHANGED <<data, processingStats, isProcessing, stopProcessingRef,
                              uploadMode, crashed>>
          ELSE /\ data' = CopyRows(session.data)
               /\ processingStats' = session.stats
               /\ isProcessing' = FALSE
               /\ stopProcessingRef' = FALSE
               /\ uploadMode' = "excel"
               /\ crashed' = RenderThrows(data')
               /\ UNCHANGED alert
    /\ UNCHANGED <<runs, matching, downloaded>>
    /\ UNCHANGED <<settingsVars, nCreated>>
    /\ UNCHANGED historyVars

(* --------------------------- specifications --------------------------- *)
\* The answers drawn while the processor is explored: a failure, and a
\* well-formed response.
RunResponses == {r \in Responses : r.parses /\ (r.ok => r.rewritten = "report")}

\* The batch processor over spreadsheet rows: upload, start, stop, clear and
\* the workers.
Next ==
    \/ SetApiKey("key")
    \/ \E n \in 1..MaxRows : handleExcelUpload(CaptionSheet(n, FALSE))
    \/ clearData
    \/ startProcessing
    \/ stopProcessing
    \/ \E r \in 1..MaxRuns, currentIndex \in 1..MaxRows, response \in RunResponses :
          workerResumes(r, currentIndex, response)

Spec == Init /\ [][Next]_vars

\* The batch processor over a short list of image and manual rows, together
\* with the history: save, delete and load.
NextSession ==
    \/ SetApiKey("key")
    \/ \E mode \in {"image", "manual"} : SetUploadMode(mode)
    \/ \E n \in 1..MaxSessionRows : handleImageUpload(n)
    \/ \E manualText \in {"", "caption"}, manualImagePreview \in {Null, "data:image"} :
          addManualEntry(manualText, manualImagePreview)
    \/ startProcessing
    \/ stopProcessing
    \/ \E r \in 1..MaxRuns, currentIndex \in 1..MaxRows, response \in RunResponses :
          workerResumes(r, currentIndex, response)
    \/ \E quotaExceeded \in BOOLEAN :
          (quotaExceeded \/ nSaved < MaxHistory) /\ handleSaveHistory(quotaExceeded)
    \/ \E k \in 1..MaxHistory : handleDeleteSession(k)
    \/ \E k \in 1..MaxHistory : handleLoadSession(k)

SpecSession == Init /\ [][NextSession]_vars

\* The history alone, over more saves than the cap.
NextHistory ==
    \/ handleExcelUpload(CaptionSheet(1, FALSE))
    \/ \E quotaExceeded \in BOOLEAN :
          (quotaExceeded \/ nSaved < MaxSaves) /\ handleSaveHistory(quotaExceeded)
    \/ \E k \in 1..(MaxSaves + 1) :
          Cardinality(deleted) < MaxDeletes /\ handleDeleteSession(k)

SpecHistory == Init /\ [][NextHistory]_vars

\* The sheets drawn for the import: up to MaxSheetRows data rows under one
\* of three header rows, each cell absent, blank or filled.
SheetHeaders == {<<"Caption">>, <<"ID", "Caption">>, <<"Caption", "Image Path">>}

CellValues(header) ==
    IF header = "Caption" THEN {NoCell, " ", "caption"}
    ELSE IF header = "ID" THEN {NoCell, "8"}
    ELSE {NoCell, "a.png"}

Sheets ==
    UNION {{[source |-> << >>, headers |-> h, cells |-> c] :
               c \in UNION {[1..n -> {row \in [1..Len(h) -> {Cell(v) : v \in Texts \cup {NoCell, "8"}}] :
                                         \A k \in 1..Len(h) : row[k].v \in CellValues(h[k])}] :
                            n \in 1..MaxSheetRows}} :
           h \in SheetHeaders}

\* The answers drawn while exports are explored.
FileResponses ==
    {r \in Responses : r.parses /\ r.extractedOriginal = "" /\ (r.ok => r.rewritten # "")}

\* Import, processing, one export and its re-import: a sheet is imported or
\* an image added before any run, at most MaxFileRuns runs are started, and
\* once a workbook has been exported it is the file that is imported.
NextFiles ==
    \/ SetApiKey("key")
    \/ SetUploadMode("image")
    \/ \E file \in Sheets \cup {NotAWorkbook} :
          downloaded = NoFile /\ runs = << >> /\ handleExcelUpload(file)
    \/ downloaded # NoFile /\ handleExcelUpload(downloaded)
    \/ runs = << >> /\ handleImageUpload(1)
    \/ clearData
    \/ Len(runs) < MaxFileRuns /\ startProcessing
    \/ \E r \in 1..MaxRuns, currentIndex \in 1..MaxRows, response \in FileResponses :
          workerResumes(r, currentIndex, response)
    \/ \E richTextKept \in BOOLEAN :
          downloaded = NoFile /\ handleDownload(richTextKept)

SpecFiles == Init /\ [][NextFiles]_vars

\* The batch processor over image and manual rows with every model.
NextModels ==
    \/ SetApiKey("key")
    \/ \E modelName \in AnyModelNames : SetSelectedModel(modelName)
    \/ \E mode \in {"image", "manual"} : SetUploadMode(mode)
    \/ \E n \in 1..MaxSessionRows : handleImageUpload(n)
    \/ \E manualText \in {"", "caption"}, manualImagePreview \in {Null, "data:image"} :
          addManualEntry(manualText, manualImagePreview)
    \/ startProcessing
    \/ \E r \in 1..MaxRuns, currentIndex \in 1..MaxRows, response \in RunResponses :
          workerResumes(r, currentIndex, response)

SpecModels == Init /\ [][NextModels]_vars

\* Match mode: a sheet with image paths, the batch processor, and images
\* associated while it runs.
NextMatch ==
    \/ SetApiKey("key")
    \/ SetUploadMode("match")
    \/ \E n \in 1..MaxMatchRows : handleExcelUpload(CaptionSheet(n, TRUE))
    \/ startProcessing
    \/ \E r \in 1..MaxRuns, currentIndex \in 1..MaxRows, response \in RunResponses :
          workerResumes(r, currentIndex, response)
    \/ \E files \in {{"a.png"}, {"b.png"}} : handleMatchImageUpload(files)
    \/ \E k \in 1..MaxMatching, read \in BOOLEAN : matchFileRead(k, read)

SpecMatch == Init /\ [][NextMatch]_vars

\* The batch processor when nobody asks it to stop and every call of
\* rewriteCaption returns: what is awaited is eventually resumed.
NextLive ==
    \/ SetApiKey("key")
    \/ \E n \in 1..MaxRows : handleExcelUpload(CaptionSheet(n, FALSE))
    \/ clearData
    \/ startProcessing
    \/ \E r \in 1..MaxRuns, currentIndex \in 1..MaxRows, response \in RunResponses :
          workerResumes(r, currentIndex, response)

EveryCallReturns ==
    \A r \in 1..MaxRuns, currentIndex \in 1..MaxRows :
        WF_vars(\E response \in RunResponses : workerResumes(r, currentIndex, response))

SpecLive == Init /\ [][NextLive]_vars /\ EveryCallReturns

\* The batch processor when one call of a run never returns, every other
\* call returns, and nobody asks it to stop.
NextHang ==
    \/ SetApiKey("key")
    \/ \E n \in 1..MaxRows : handleExcelUpload(CaptionSheet(n, FALSE))
    \/ clearData
    \/ startProcessing
    \/ \E r \in 1..MaxRuns, currentIndex \in 1..MaxRows, response \in RunResponses :
          workerResumes(r, currentIndex, response)
    \/ \E r \in 1..MaxRuns, currentIndex \in 1..MaxRows : callHangs(r, currentIndex)

SpecHang == Init /\ [][NextHang]_vars /\ EveryCallReturns

(* ------------------------------ claims -------------------------------- *)
Statuses(d) == {d[i].status : i \in {j \in 1..Len(d) : IsRow(d[j])}}

NumProcessing == Cardinality({i \in 1..Len(data) : data[i].status = "processing"})

\* rewriteCaption calls awaited by the workers of all runs
InFlight == {<<r, p>> \in (1..Len(runs)) \X (1..MaxRows + 1) : p \in runs[r].awaiting}

\* run r had a worker awaiting the call for position p, and that call
\* settled in this step
Returned(r, p) ==
    /\ r \in 1..Len(runs)
    /\ p \in runs[r].awaiting
    /\ p \notin runs'[r].awaiting

\* run r settled in this step (as it started, or as its last worker returned)
SettledNow(r) ==
    /\ r \in 1..Len(runs')
    /\ RunSettled(runs'[r])
    /\ r > Len(runs) \/ ~RunSettled(runs[r])

\* C1: a run that nobody stopped invokes rewriteCaption exactly once for each
\* row of its queue, N times for N queued rows; no run ever invokes it twice
\* for a queue position, and the positions invoked are those below the cursor.
C1_ExactlyOncePerRow ==
    \A r \in 1..Len(runs) :
        LET run == runs[r]
        IN /\ \A p \in DOMAIN run.calls :
                run.calls[p] = IF p <= run.index THEN 1 ELSE 0
           /\ RunSettled(run) /\ ~run.stopRequested =>
                \A p \in DOMAIN run.calls : run.calls[p] = 1

C1_Witness ==
    \E r \in 1..Len(runs) :
        /\ RunSettled(runs[r])
        /\ ~runs[r].stopRequested
        /\ Len(runs[r].calls) = MaxRows
        /\ \A p \in 1..MaxRows : runs[r].calls[p] = 1

\* C2: when a run has settled, no row of the list is in status processing.
C2_NoProcessingAfterRun ==
    [][\A r \in 1..MaxRuns : SettledNow(r) => "processing" \notin Statuses(data')]_vars

\* C3: once stopProcessing was called during a run, that run's cursor never
\* advances again: its workers claim no further row.
C3_NoClaimAfterStop ==
    \A r \in 1..Len(runs) :
        runs[r].stopRequested => runs[r].index = runs[r].indexAtStop

\* C4: when an awaited call returns, stop requested or not, the worker writes
\* the outcome into the row list at the index the call was dispatched for:
\* that row is then completed with a rewritten text, or error with a message.
C4_ResultWrittenBack ==
    [][\A r \in 1..MaxRuns, p \in 1..MaxRows :
          Returned(r, p) /\ ~crashed =>
             LET i == runs[r].itemsToProcess[p].index
             IN /\ i <= Len(data')
                /\ data'[i].status \in {"completed", "error"}
                /\ data'[i].status = "completed" => Truthy(data'[i].rewritten)
                /\ data'[i].status = "error" => Truthy(data'[i].error)]_vars

C4_Witness ==
    /\ ~crashed
    /\ Len(runs) = 1
    /\ runs[1].stopRequested
    /\ runs[1].indexAtStop = CONCURRENCY
    /\ RunSettled(runs[1])
    /\ Len(data) = CONCURRENCY + 1
    /\ \A i \in 1..CONCURRENCY : data[i].status \in {"completed", "error"}
    /\ data[1].status = "completed"
    /\ data[2].status = "error"
    /\ data[CONCURRENCY + 1].status = "pending"

\* C5: at most 3 rewriteCaption calls are in flight and at most 3 rows are
\* in status processing.
C5_AtMostThree ==
    /\ Cardinality(InFlight) <= CONCURRENCY
    /\ NumProcessing <= CONCURRENCY

\* C6: when a call fails, its row gets status error with a message, the
\* worker claims the next unclaimed row of the queue unless the stop flag is
\* set, and a run nobody stopped that settles on a failure has claimed every
\* row of its queue.
C6_FailureIsNotFatal ==
    [][\A r \in 1..MaxRuns, p \in 1..MaxRows :
          Returned(r, p) /\ ~crashed =>
             LET i == runs[r].itemsToProcess[p].index
                 N == Len(runs[r].itemsToProcess)
             IN (i <= Len(data') /\ data'[i].status = "error") =>
                   /\ Truthy(data'[i].error)
                   /\ (~stopProcessingRef /\ runs[r].index < N) =>
                         /\ runs'[r].index = runs[r].index + 1
                         /\ runs'[r].index \in runs'[r].awaiting
                   /\ (SettledNow(r) /\ ~runs'[r].stopRequested) =>
                         runs'[r].index = N]_vars

C6_Witness ==
    /\ ~crashed
    /\ Len(runs) = 1
    /\ RunSettled(runs[1])
    /\ ~runs[1].stopRequested
    /\ Len(runs[1].calls) = MaxRows
    /\ Len(data) = MaxRows
    /\ data[1].status = "error"
    /\ \A i \in 2..MaxRows : data[i].status = "completed"

\* C7: while a run has workers, no row of its queue goes from completed or
\* error back to processing or pending, nor from processing back to pending.
Backwards(old, new) ==
    \/ old \in {"completed", "error"} /\ new \in {"processing", "pending"}
    \/ old = "processing" /\ new = "pending"

C7_MonotonicStatus ==
    [][\A r \in 1..MaxRuns :
          (r \in 1..Len(runs) /\ ~RunSettled(runs[r])) =>
             \A p \in 1..Len(runs[r].itemsToProcess) :
                LET i == runs[r].itemsToProcess[p].index
                IN (/\ i <= Len(data) /\ i <= Len(data')
                    /\ IsRow(data[i]) /\ IsRow(data'[i])
                    /\ data[i].id = runs[r].itemsToProcess[p].item.id
                    /\ data'[i].id = data[i].id)
                   => ~Backwards(data[i].status, data'[i].status)]_vars

SessionIds(sessions) == {sessions[k].id : k \in 1..Len(sessions)}

\* C8: the stored list never holds more than 20 sessions, is ordered most
\* recently saved first, holds every session among the 20 most recently
\* saved that was not deleted, and has the newest saved session at its head
\* unless that one was deleted.
C8_TwentyMostRecentFirst ==
    /\ Len(localStorage) <= SessionCap
    /\ \A k \in 1..(Len(localStorage) - 1) : localStorage[k].id > localStorage[k + 1].id
    /\ SessionIds(localStorage) \subseteq (1..nSaved) \ deleted
    /\ \A id \in 1..nSaved :
          (id > nSaved - SessionCap /\ id \notin deleted) => id \in SessionIds(localStorage)
    /\ (nSaved > 0 /\ nSaved \notin deleted) => localStorage[1].id = nSaved

C8_Witness ==
    /\ nSaved > SessionCap
    /\ Len(localStorage) = SessionCap
    /\ localStorage[1].id = nSaved
    /\ localStorage[SessionCap].id = nSaved - SessionCap + 1
    /\ 1 \notin deleted

\* C9: every row of every stored session has no imageData; the session a
\* save stores has, row by row, the id, original, rewritten, status,
\* imagePath and error of the row list at that moment; and the save leaves
\* the row list, image payloads included, as it was.
StoredRowsStripped ==
    \A k \in 1..Len(localStorage) : \A i \in 1..Len(localStorage[k].data) :
        localStorage[k].data[i].imageData = Undefined

C9_StoredWithoutImages ==
    /\ []StoredRowsStripped
    /\ [][nSaved' = nSaved + 1 =>
            /\ data' = data
            /\ Len(localStorage') >= 1
            /\ localStorage'[1].id = nSaved'
            /\ Len(localStorage'[1].data) = Len(data)
            /\ \A i \in 1..Len(data) :
                  IsRow(data[i]) =>
                     localStorage'[1].data[i] = [data[i] EXCEPT !.imageData = Undefined]]_vars

C9_Witness ==
    /\ Len(localStorage) = 1
    /\ Len(data) = Len(localStorage[1].data)
    /\ \E i \in 1..Len(data) :
          /\ data[i].imageData = "data:image"
          /\ data[i].status = "completed"
          /\ localStorage[1].data[i] = [data[i] EXCEPT !.imageData = Undefined]

\* C10: a save whose storage write fails shows the failure and changes
\* neither the stored list, nor the sidebar's list, nor the row list, nor
\* the stats.
C10_FailedSaveChangesNothing ==
    [][(alert' = SaveFailedAlert /\ alert # SaveFailedAlert) =>
          UNCHANGED <<localStorage, historySessions, data, processingStats,
                      isProcessing, nSaved>>]_vars

C10_Witness ==
    /\ alert = SaveFailedAlert
    /\ Len(data) > 0
    /\ Len(localStorage) = 1
    /\ Len(historySessions) = 1

\* the workbook was written with its two compared columns in full
WrittenInFull(file) ==
    \A i \in 1..Len(file.cells) : file.cells[i][2].v # NoCell /\ file.cells[i][3].v # NoCell

\* C11: importing the workbook handleDownload wrote (its compared columns
\* written in full) gives, row by row, the original, rewritten, imagePath and
\* status of the rows that were exported.
C11_ExportImportRoundTrip ==
    [][(/\ downloaded # NoFile
        /\ WrittenInFull(downloaded)
        /\ handleExcelUpload(downloaded))
       => /\ Len(data') = Len(downloaded.source)
          /\ \A i \in 1..Len(data') :
                /\ OrElse(data'[i].original, "") = OrElse(downloaded.source[i].original, "")
                /\ OrElse(data'[i].rewritten, "") = OrElse(downloaded.source[i].rewritten, "")
                /\ OrElse(data'[i].imagePath, "") = OrElse(downloaded.source[i].imagePath, "")
                /\ data'[i].status = downloaded.source[i].status]_vars

\* the first column whose header names a caption, 0 when there is none
CaptionColumn(file) ==
    LET hits == {c \in 1..Len(file.headers) : IsCaptionKey(file.headers[c])}
    IN IF hits = {} THEN 0 ELSE CHOOSE c \in hits : \A h \in hits : c <= h

\* the captions of the data rows that have one, in the sheet's order
RECURSIVE Captions(_, _)
Captions(rows, c) ==
    IF rows = << >> THEN << >>
    ELSE (IF Head(rows)[c].v # NoCell /\ Trim(Chars(Head(rows)[c].v)) # << >>
          THEN <<Head(rows)[c].v>> ELSE << >>)
         \o Captions(Tail(rows), c)

\* C12: importing a sheet that has a caption column gives one pending row
\* per data row with a caption, in the sheet's order, each with the value of
\* the caption column as its original.
C12_OriginalIsTheCaptionColumn ==
    [][\A file \in Sheets :
          (CaptionColumn(file) # 0 /\ handleExcelUpload(file)) =>
             LET captions == Captions(file.cells, CaptionColumn(file))
             IN /\ Len(data') = Len(captions)
                /\ \A i \in 1..Len(data') :
                      /\ data'[i].original = captions[i]
                      /\ data'[i].status = "pending"]_vars

\* the rows compared with an empty original and a non-empty rewritten text
EmptyOriginal(row) == IsRow(row) /\ ~Truthy(row.original) /\ Truthy(row.rewritten)

AllAdded(spans) == \A k \in 1..Len(spans) : spans[k].highlight

NoneRemoved(spans) == \A k \in 1..Len(spans) : ~spans[k].highlight

\* the export of row i of the workbook agrees with what DiffView shows
ComparedTo(row, shown) ==
    /\ NoneRemoved(DiffView(row.original, row.rewritten, "original"))
    /\ AllAdded(DiffView(row.original, row.rewritten, "rewritten"))
    /\ Shown(DiffView(row.original, row.rewritten, "rewritten")) = shown

ExportedAs(i, shown) ==
    /\ NoneRemoved(downloaded.cells[i][2].r)
    /\ AllAdded(downloaded.cells[i][3].r)
    /\ Shown(downloaded.cells[i][3].r) = shown

\* C13 (as stated): for a row with an empty original and a non-empty
\* rewritten text, DiffView and the exported workbook highlight nothing in
\* the original column, and the rewritten column is made of added runs only,
\* which together are the whole rewritten text.
C13_WholeRewrittenAdded ==
    /\ \A i \in 1..Len(data) :
          EmptyOriginal(data[i]) => ComparedTo(data[i], Chars(data[i].rewritten))
    /\ \A i \in 1..Len(downloaded.source) :
          EmptyOriginal(downloaded.source[i]) =>
             ExportedAs(i, Chars(downloaded.source[i].rewritten))

\* C13 (amended): ... which together are the clean rewritten caption that
\* extractRewrittenText takes from the rewritten text, when that is not empty.
C13_CleanRewrittenAdded ==
    /\ \A i \in 1..Len(data) :
          (EmptyOriginal(data[i]) /\ extractRewrittenText(data[i].rewritten) # << >>) =>
             ComparedTo(data[i], extractRewrittenText(data[i].rewritten))
    /\ \A i \in 1..Len(downloaded.source) :
          (/\ EmptyOriginal(downloaded.source[i])
           /\ extractRewrittenText(downloaded.source[i].rewritten) # << >>) =>
             ExportedAs(i, extractRewrittenText(downloaded.source[i].rewritten))

C13_Witness ==
    /\ Len(data) = 1
    /\ EmptyOriginal(data[1])
    /\ data[1].rewritten = "note Final Caption: report"
    /\ downloaded.source = data
    /\ Shown(downloaded.cells[1][3].r) = Chars("report")
    /\ Len(downloaded.cells[1][3].r) = 1

\* the queue of run r as the step that claims from it finds it
QueueOf(r) ==
    IF r <= Len(runs) THEN runs[r].itemsToProcess ELSE ItemsToProcess(data, 1)

\* a worker of run r claimed queue position p in this step
Claimed(r, p) ==
    /\ r \in 1..Len(runs')
    /\ p \in 1..runs'[r].index
    /\ r > Len(runs) \/ p > runs[r].index

\* C14: with a model name that does not include "gemini", rewriteCaption
\* given an image fails before any request is sent, with or without a text
\* and whatever provider the name includes, and with an API key its message
\* says that the model takes text only; the worker that claims such a row
\* awaits no call for it and writes that message into the row.
C14_ImageRejectedWithoutRequest ==
    /\ [](\A modelName \in AnyModelNames, key \in {"", "key"}, text \in {Undefined, "", "caption"} :
             ~Includes(modelName, "gemini") =>
                LET thrown == RewriteCaptionThrows(key, modelName,
                                 [text |-> text, imageData |-> "data:image"])
                IN /\ thrown # NoThrow
                   /\ Truthy(key) => thrown = TextOnlyMessage)
    /\ [][\A r \in 1..MaxRuns, p \in 1..MaxRows :
             (/\ Claimed(r, p)
              /\ ~Includes(runs'[r].selectedModel, "gemini")
              /\ Truthy(QueueOf(r)[p].item.imageData)
              /\ ~crashed')
             => /\ p \notin runs'[r].awaiting
                /\ data'[QueueOf(r)[p].index].status = "error"
                /\ data'[QueueOf(r)[p].index].error = TextOnlyMessage]_vars

C14_Witness ==
    /\ Len(runs) = 1
    /\ runs[1].selectedModel = "deepseek-chat"
    /\ runs[1].calls = <<1>>
    /\ RunSettled(runs[1])
    /\ Len(data) = 1
    /\ data[1].original = "caption"
    /\ data[1].imageData = "data:image"
    /\ data[1].status = "error"
    /\ data[1].error = TextOnlyMessage

\* the indexes of the rows of d that are pending or error
Eligible(d) == {i \in 1..Len(d) : IsRow(d[i]) /\ d[i].status \in {"pending", "error"}}

\* C15: the queue of a run holds the rows that are pending or error when
\* startProcessing is called, in list order, and no others; rewriteCaption is
\* never invoked for a row that is completed, and a completed row keeps its
\* rewritten text.
C15_CompletedNeverRerun ==
    [][/\ Len(runs') = Len(runs) + 1 =>
             LET run == runs'[Len(runs')]
                 queue == run.itemsToProcess
             IN /\ Len(run.calls) = Cardinality(Eligible(data))
                /\ ~RunSettled(run) =>
                      /\ {queue[p].index : p \in 1..Len(queue)} = Eligible(data)
                      /\ \A p \in 1..Len(queue) : queue[p].item = data[queue[p].index]
                      /\ \A p, q \in 1..Len(queue) : p < q => queue[p].index < queue[q].index
       /\ \A r \in 1..MaxRuns, p \in 1..MaxRows :
             Claimed(r, p) =>
                LET i == QueueOf(r)[p].index
                IN ~(i <= Len(data) /\ data[i].id = QueueOf(r)[p].item.id
                     /\ data[i].status = "completed")
       /\ \A i \in 1..Len(data) :
             (/\ data[i].status = "completed"
              /\ i <= Len(data') /\ data'[i].id = data[i].id)
             => data'[i].rewritten = data[i].rewritten]_vars

\* C16: the rows of a run are claimed in the cursor's order: in every step
\* the positions a run's workers claim are the next ones after the cursor,
\* each claimed once and its row marked processing in that step (and error
\* at once when the call throws before any request), so a position is
\* claimed no later than any position after it; the cursor never moves back
\* and no claim is undone.
C16_ClaimedInCursorOrder ==
    /\ [](\A r \in 1..Len(runs) :
             /\ runs[r].awaiting \subseteq 1..runs[r].index
             /\ runs[r].index <= Len(runs[r].calls))
    /\ [][\A r \in 1..MaxRuns :
             r \in 1..Len(runs') =>
                LET before == IF r <= Len(runs) THEN runs[r].index ELSE 0
                    called(p) == IF r <= Len(runs) THEN runs[r].calls[p] ELSE 0
                IN /\ runs'[r].index >= before
                   /\ \A p \in 1..Len(runs'[r].calls) :
                         runs'[r].calls[p] =
                            IF p > before /\ p <= runs'[r].index THEN called(p) + 1
                            ELSE called(p)
                   /\ \A p \in (before + 1)..runs'[r].index :
                         /\ called(p) = 0
                         /\ ~crashed =>
                               data'[QueueOf(r)[p].index].status =
                                  IF p \in runs'[r].awaiting THEN "processing" ELSE "error"]_vars

C16_Witness ==
    /\ Len(runs) = 1
    /\ ~runs[1].stopRequested
    /\ runs[1].index = MaxRows
    /\ runs[1].awaiting = {2, MaxRows}
    /\ Len(data) = MaxRows
    /\ data[1].status = "completed"
    /\ data[3].status = "error"
    /\ data[MaxRows].status = "processing"

\* C17: a result a worker wrote is not lost: a row that is completed or
\* error stays so, with its rewritten text and its error message, until a
\* worker claims it again for a new call.
C17_NoLostUpdate ==
    [][\A i \in 1..Len(data) :
          (/\ IsRow(data[i]) /\ data[i].status \in {"completed", "error"}
           /\ i <= Len(data') /\ IsRow(data'[i]) /\ data'[i].id = data[i].id)
          => \/ /\ data'[i].status = data[i].status
                /\ data'[i].rewritten = data[i].rewritten
                /\ data'[i].error = data[i].error
             \/ \E r \in 1..MaxRuns, p \in 1..MaxRows :
                   Claimed(r, p) /\ QueueOf(r)[p].index = i]_vars

\* a worker ran in this step: a run began, or a call of a run returned
WorkerStep ==
    \/ Len(runs') > Len(runs)
    \/ \E r \in 1..Len(runs) :
          runs'[r].awaiting # runs[r].awaiting \/ runs'[r].index # runs[r].index

\* a worker wrote index i in this step: the row of the call that returned,
\* or a row claimed
WrittenBy(i) ==
    \E r \in 1..MaxRuns, p \in 1..MaxRows :
        /\ p <= Len(QueueOf(r))
        /\ QueueOf(r)[p].index = i
        /\ \/ Claimed(r, p)
           \/ r <= Len(runs) /\ p \in runs[r].awaiting \ runs'[r].awaiting

\* C18: the write-backs of the workers replace single rows: a step of the
\* workers leaves the length of the list unchanged, every index it did not
\* claim or write back unchanged, and the id, imagePath and imageData of the
\* rows it wrote unchanged.
C18_SingleIndexReplacement ==
    [][WorkerStep =>
          /\ Len(data') = Len(data)
          /\ \A i \in 1..Len(data) :
                /\ data'[i] # data[i] => WrittenBy(i)
                /\ IsRow(data[i]) =>
                      /\ IsRow(data'[i])
                      /\ data'[i].id = data[i].id
                      /\ data'[i].imagePath = data[i].imagePath
                      /\ data'[i].imageData = data[i].imageData]_vars

\* the run in progress is over: nothing is awaited, every row is completed
\* or error, and the processing flag is down
Terminated ==
    /\ ~isProcessing
    /\ \A r \in 1..Len(runs) : RunSettled(runs[r])
    /\ Statuses(data) \subseteq {"completed", "error"}

\* C19: when every call returns and no stop is requested, a run that
\* started eventually terminates: every row it queued is completed or error
\* and isProcessing is false.
C19_RunTerminates == isProcessing ~> Terminated

C19_Witness ==
    /\ Terminated
    /\ Len(runs) = 1
    /\ runs[1].index = MaxRows
    /\ Len(data) = MaxRows
    /\ data[1].status = "completed"
    /\ data[MaxRows].status = "error"

\* the queue of run r is drained but for the call that hangs: every
\* position is claimed, the hung call alone is awaited, and every other
\* queued row is completed or error
Drained(r) ==
    /\ runs[r].hung # {}
    /\ runs[r].index = Len(runs[r].calls)
    /\ runs[r].awaiting = runs[r].hung
    /\ \A p \in 1..Len(runs[r].itemsToProcess) :
          p \notin runs[r].hung =>
             data[runs[r].itemsToProcess[p].index].status \in {"completed", "error"}

\* C20: a call that never returns stalls one worker: its row stays
\* processing and the run does not finish (the call stays awaited and
\* isProcessing stays true), and the other workers drain the queue, every
\* other queued row ending completed or error.
C20_HungCallStallsOneWorker ==
    /\ [](\A r \in 1..Len(runs) : \A p \in runs[r].hung :
             /\ p \in runs[r].awaiting
             /\ isProcessing
             /\ data[runs[r].itemsToProcess[p].index].status = "processing")
    /\ (\E r \in 1..Len(runs) : runs[r].hung # {})
          ~> (\E r \in 1..Len(runs) : Drained(r))

C20_Witness ==
    /\ Len(runs) = 1
    /\ Drained(1)
    /\ runs[1].hung = {1}
    /\ Len(runs[1].itemsToProcess) = MaxRows
    /\ isProcessing
    /\ data[1].status = "processing"
    /\ data[2].status = "error"
    /\ data[MaxRows].status = "completed"

\* the inputs a row may carry to rewriteCaption
Inputs ==
    {[text |-> t, imageData |-> m] :
        t \in {Undefined, "caption"}, m \in {Undefined, "data:image"}}

\* C21: startProcessing with an empty API key or an empty row list starts
\* no run (no call of rewriteCaption) and leaves the rows, the stats,
\* isProcessing and the stop flag as they were; rewriteCaption with an empty
\* API key fails before any request, whatever the model and the input.
C21_ValidationBlocksTheBatch ==
    /\ [](\A modelName \in AnyModelNames, input \in Inputs :
             RewriteCaptionThrows("", modelName, input) = "API Key is missing")
    /\ [][(startProcessing /\ (~Truthy(apiKey) \/ Len(data) = 0))
             => UNCHANGED <<data, processingStats, isProcessing, stopProcessingRef,
                            runs>>]_vars

C21_Witness ==
    /\ alert = NeedKeyAlert
    /\ apiKey = ""
    /\ Len(data) = MaxRows
    /\ Statuses(data) = {"pending"}
    /\ runs = << >>
    /\ ~isProcessing

\* C22: a stop request stays in force for the run it was issued against: in
\* no later step, whatever was done since (a new start, a clear), does a
\* worker of a stopped run claim a position of that run's queue.
C22_StopIsPermanent ==
    [][\A r \in 1..Len(runs) :
          runs[r].stopRequested => \A p \in 1..MaxRows : ~Claimed(r, p)]_vars

\* the runs that have a worker awaiting a call
ActiveRuns == {r \in 1..Len(runs) : ~RunSettled(runs[r])}

\* the index in the row list of the row a call in flight was made for
RowOf(call) == runs[call[1]].itemsToProcess[call[2]].index

\* C23: workers of at most one run are active at any time, and no two calls
\* in flight are for the same row.
C23_OneRunAtATime ==
    /\ Cardinality(ActiveRuns) <= 1
    /\ \A c1, c2 \in InFlight : RowOf(c1) = RowOf(c2) => c1 = c2

\* C24: the counters never exceed the total: completed + failed <= total,
\* so the progress shown is at most 100 percent.
C24_CountersWithinTotal ==
    processingStats.completed + processingStats.failed <= processingStats.total

\* C25: the result of a call is written only into the row that was sent:
\* when a call returns and the row at its index is no longer that row (the
\* list was cleared or replaced meanwhile), the list keeps its length and
\* the slot at that index is left as it is.
C25_WrittenOnlyIntoTheRowSent ==
    [][\A r \in 1..Len(runs) : \A p \in 1..Len(runs[r].itemsToProcess) :
          Returned(r, p) =>
             LET entry == runs[r].itemsToProcess[p]
             IN \/ /\ entry.index <= Len(data)
                   /\ IsRow(data[entry.index])
                   /\ data[entry.index].id = entry.item.id
                \/ /\ Len(data') = Len(data)
                   /\ entry.index <= Len(data) => data'[entry.index] = data[entry.index]]_vars

\* C26: the total of the stats is the number of rows of the list.
C26_TotalIsTheNumberOfRows == processingStats.total = Len(data)

\* the ids of a list of sessions, in the order of the list
IdsInOrder(sessions) == [k \in 1..Len(sessions) |-> sessions[k].id]

\* C27: the history list of the sidebar is the stored list: the same
\* sessions in the same order, at most SessionCap of them.
C27_SidebarIsTheStoredList ==
    /\ IdsInOrder(historySessions) = IdsInOrder(localStorage)
    /\ Len(historySessions) <= SessionCap

\* the fields of a row agree with its status
Consistent(row) ==
    /\ row.status = "completed" =>
          Truthy(row.rewritten) /\ ~Truthy(row.error)
    /\ row.status = "error" => Truthy(row.error)
    /\ row.status = "pending" =>
          row.rewritten = Null /\ ~Truthy(row.error)

\* C28: every row's fields agree with its status: completed with a
\* rewritten text and no error message, error with an error message,
\* pending with rewritten null and no error message.
C28_FieldsAgreeWithStatus ==
    \A i \in 1..Len(data) : IsRow(data[i]) => Consistent(data[i])

\* C29: a row in status processing has a worker awaiting a call for it (so
\* that the row leaves processing when the call returns).
C29_ProcessingRowsAreAwaited ==
    \A i \in 1..Len(data) :
        (IsRow(data[i]) /\ data[i].status = "processing")
           => \E call \in InFlight : RowOf(call) = i

\* C30: every row handed to rewriteCaption carries a text or an image: the
\* input built for a claimed queue position has a non-empty text or an
\* image payload.
C30_EveryCallHasAnInput ==
    [][\A r \in 1..MaxRuns, p \in 1..MaxRows :
          Claimed(r, p) =>
             LET input == WorkerInput(QueueOf(r)[p].item)
             IN Truthy(input.text) \/ Truthy(input.imageData)]_vars

====
